---- MODULE Spec2Model ----
(***************************************************************************)
(* alpha-recover (src/src/main.rs): derives an image with an alpha channel *)
(* from two renders of the same content, one on a black and one on a white *)
(* background.                                                             *)
(*                                                                         *)
(* Numbers.  The program computes in f64.  The model computes in exact     *)
(* rationals <<n, d>> kept in lowest terms with d > 0; the IEEE specials   *)
(* a division by zero would produce are <<1, 0>> (+inf), <<-1, 0>> (-inf)  *)
(* and <<0, 0>> (NaN).  Rounding of the f32 and f64 arithmetic is not      *)
(* modelled.                                                               *)
(***************************************************************************)
EXTENDS Integers, Sequences, FiniteSets

VARIABLES
    pc,           \* main: the statement main is about to run
    blend,        \* args.blend
    black_image,  \* the decoded BLACK image, or NoImage
    white_image,  \* the decoded WHITE image, or NoImage
    out_image,    \* luma_image / rgb_image, the buffer being filled, or NoImage
    idx,          \* number of pixels enumerate_pixels_mut has already yielded
    out_file,     \* what is at args.out on disk
    saves,        \* number of calls of save() that returned Ok
    error,        \* the message of the panic that ended the run, or "none"
    phase,        \* the position of the pure-function harnesses
    black_pixel,  \* magic: black_pixel
    white_pixel,  \* magic: white_pixel
    new,          \* the array magic returned
    quant,        \* the array after the integer casts, << as u8, as u16 >> per channel
    truth,        \* the synthetic scene's true alpha and colour
    cast_in,      \* the value handed to the casts
    cast_out      \* << (cast_in * SCALAR8) as u8, (cast_in * SCALAR16) as u16 >>

pipeVars == <<pc, black_image, white_image, out_image, idx, out_file, saves, error>>
magicVars == <<black_pixel, white_pixel, new, quant, truth>>
castVars == <<cast_in, cast_out>>
vars == <<pc, blend, black_image, white_image, out_image, idx, out_file, saves, error,
          phase, black_pixel, white_pixel, new, quant, truth, cast_in, cast_out>>

----------------------------------------------------------------------------
(* Bounds of the model.                                                    *)

\* Samples handed to magic alone are k / GridDen, k in 0 .. GridDen.
GridDen == 3
\* True alpha and true colour of a synthetic scene are k / SynthDen.
SynthDen == 4
\* Values handed to the casts alone are k / CastDen, |k| <= CastMax.
CastDen == 10
CastMax == 30
\* Images are at most MaxWidth x MaxHeight.
MaxWidth == 2
MaxHeight == 2
\* Image contents are chosen among MaxSeed + 1 patterns.
MaxSeed == 2

----------------------------------------------------------------------------
(* Exact rational arithmetic standing for f64.                             *)

Abs(i) == IF i < 0 THEN -i ELSE i

RECURSIVE GCD(_, _)
GCD(a, b) == IF b = 0 THEN a ELSE GCD(b, a % b)

\* n / d in lowest terms, d > 0.
Norm(n, d) ==
    LET s == IF d < 0 THEN -1 ELSE 1
        g == GCD(Abs(n), Abs(d))
    IN  <<(s * n) \div g, (s * d) \div g>>

NaN == <<0, 0>>
Inf(sign) == <<sign, 0>>
Zero == <<0, 1>>
One == <<1, 1>>
Two == <<2, 1>>

IsFinite(x) == x[2] # 0
Sign(i) == IF i > 0 THEN 1 ELSE IF i < 0 THEN -1 ELSE 0

\* x + y and x - y of finite x, y, over the least common denominator.
RAdd(x, y) ==
    LET g == GCD(x[2], y[2])
    IN  Norm(x[1] * (y[2] \div g) + y[1] * (x[2] \div g), (x[2] \div g) * y[2])

RSub(x, y) == RAdd(x, <<-y[1], y[2]>>)

\* x / y of finite x, y as f64 division: x / 0 is +-inf, 0 / 0 is NaN.
RDiv(x, y) ==
    IF y[1] = 0
    THEN IF x[1] = 0 THEN NaN ELSE Inf(Sign(x[1]))
    ELSE LET g1 == GCD(Abs(x[1]), Abs(y[1]))
             g2 == GCD(x[2], y[2])
         IN  Norm((x[1] \div g1) * (y[2] \div g2), (x[2] \div g2) * (y[1] \div g1))

\* x > 0.0, x <= 1.0, ... : comparisons with NaN are false.
RGtZero(x) == x[1] > 0
RLeZero(x) == x # NaN /\ x[1] <= 0
RGeZero(x) == x # NaN /\ x[1] >= 0
RLtZero(x) == x[1] < 0
RGtOne(x) == x # NaN /\ x[1] > x[2]
RLeOne(x) == x # NaN /\ x[1] <= x[2]
RLeTwo(x) == x # NaN /\ IsFinite(x) /\ x[1] <= 2 * x[2]

\* clamp(x, 0.0, 1.0) of a finite x.
Clamp01(x) == IF RLtZero(x) THEN Zero ELSE IF RGtOne(x) THEN One ELSE x

\* << floor(n * s / d), (n * s) mod d >> for 0 <= n, 0 <= s, 0 < d, by doubling,
\* so that no intermediate value exceeds 3 * max(n, d).
RECURSIVE MulDivMod(_, _, _)
MulDivMod(n, s, d) ==
    IF s = 0
    THEN <<0, 0>>
    ELSE LET h == MulDivMod(n, s \div 2, d)
             r == 2 * h[2] + (IF s % 2 = 1 THEN n % d ELSE 0)
             q == 2 * h[1] + (IF s % 2 = 1 THEN n \div d ELSE 0)
         IN  <<q + (r \div d), r % d>>

----------------------------------------------------------------------------
(* The blend modes and the recovery transform.                             *)

Blend == {"White", "Black", "Mix"}

\* magic with the guard written `alpha >= 0.0`: a zero alpha is divided by.
magic_ge_guard(bp, wp, bl) ==
    LET alpha == RAdd(RSub(bp[1], wp[1]), One)
        pick(c) == CASE bl = "White" -> RDiv(wp[c], alpha)
                     [] bl = "Black" -> RDiv(bp[c], alpha)
                     [] bl = "Mix" -> RDiv(RDiv(RAdd(bp[c], wp[c]), Two), alpha)
    IN  IF RGeZero(alpha)
        THEN <<pick(1), pick(2), pick(3), alpha>>
        ELSE <<Zero, Zero, Zero, alpha>>

\* magic with the White and Black arms exchanged.
magic_swapped(bp, wp, bl) ==
    LET alpha == RAdd(RSub(bp[1], wp[1]), One)
        pick(c) == CASE bl = "White" -> RDiv(bp[c], alpha)
                     [] bl = "Black" -> RDiv(wp[c], alpha)
                     [] bl = "Mix" -> RDiv(RDiv(RAdd(bp[c], wp[c]), Two), alpha)
    IN  IF RGtZero(alpha)
        THEN <<pick(1), pick(2), pick(3), alpha>>
        ELSE <<Zero, Zero, Zero, alpha>>

\* magic with the "+ 1.0" of the alpha lost.
magic_no_one(bp, wp, bl) ==
    LET alpha == RSub(bp[1], wp[1])
        pick(c) == CASE bl = "White" -> RDiv(wp[c], alpha)
                     [] bl = "Black" -> RDiv(bp[c], alpha)
                     [] bl = "Mix" -> RDiv(RDiv(RAdd(bp[c], wp[c]), Two), alpha)
    IN  IF RGtZero(alpha)
        THEN <<pick(1), pick(2), pick(3), alpha>>
        ELSE <<Zero, Zero, Zero, alpha>>

\* magic with every colour channel read from the red one.
magic_red_only(bp, wp, bl) ==
    LET alpha == RAdd(RSub(bp[1], wp[1]), One)
        pick(c) == CASE bl = "White" -> RDiv(wp[1], alpha)
                     [] bl = "Black" -> RDiv(bp[1], alpha)
                     [] bl = "Mix" -> RDiv(RDiv(RAdd(bp[1], wp[1]), Two), alpha)
    IN  IF RGtZero(alpha)
        THEN <<pick(1), pick(2), pick(3), alpha>>
        ELSE <<Zero, Zero, Zero, alpha>>

\* fn magic(black_pixel, white_pixel, blend) -> [rs, gs, bs, alpha]
magic(bp, wp, bl) ==
    LET alpha == RAdd(RSub(bp[1], wp[1]), One)
        pick(c) == CASE bl = "White" -> RDiv(wp[c], alpha)
                     [] bl = "Black" -> RDiv(bp[c], alpha)
                     [] bl = "Mix" -> RDiv(RDiv(RAdd(bp[c], wp[c]), Two), alpha)
    IN  IF RGtZero(alpha)
        THEN <<pick(1), pick(2), pick(3), alpha>>
        ELSE <<Zero, Zero, Zero, alpha>>

----------------------------------------------------------------------------
(* The integer casts of the output.                                        *)

SCALAR8 == 255
SCALAR16 == 65535

\* (x * scalar) as uN done as a wrapping conversion: floor(x * scalar) mod 2^N.
cast_wrapping(x, scalar) ==
    IF ~IsFinite(x) THEN 0 ELSE ((x[1] * scalar) \div x[2]) % (scalar + 1)

\* (x * scalar) as uN, where scalar is the largest value of uN (255 = u8::MAX,
\* 65535 = u16::MAX).  A float-to-integer `as` cast truncates toward zero and
\* saturates: NaN is 0, anything below 0 is 0, anything from x = 1.0 up,
\* +inf included, is the largest value.
cast_scaled(x, scalar) ==
    IF x = NaN THEN 0
    ELSE IF x[1] <= 0 THEN 0
    ELSE IF x[1] >= x[2] THEN scalar
    ELSE MulDivMod(x[1], scalar, x[2])[1]

\* The two casts main applies to one channel, 8-bit arm and 16-bit arm.
Casts(x) == <<cast_scaled(x, SCALAR8), cast_scaled(x, SCALAR16)>>

----------------------------------------------------------------------------
(* Harnesses for the pure functions: magic alone, magic on a synthetic     *)
(* scene, the casts alone.  main is not running (pc = "off").              *)

NoImage == [width |-> 0, height |-> 0, color |-> "none", data |-> <<>>]

\* What is at args.out: nothing, a file from before the run, a file save()
\* left cut short, or the image save() wrote.
FileAbsent == [state |-> "absent", image |-> NoImage]
FileOld == [state |-> "old", image |-> NoImage]
FileTruncated == [state |-> "truncated", image |-> NoImage]
FileWritten(img) == [state |-> "written", image |-> img]
NoPixel == <<Zero, Zero, Zero>>
NoArray == <<Zero, Zero, Zero, Zero>>
NoQuant == <<<<0, 0>>, <<0, 0>>, <<0, 0>>, <<0, 0>>>>
NoTruth == [alpha |-> Zero, color |-> NoPixel]

PipeOff ==
    /\ pc = "off"
    /\ black_image = NoImage
    /\ white_image = NoImage
    /\ out_image = NoImage
    /\ idx = 0
    /\ out_file = FileAbsent
    /\ saves = 0
    /\ error = "none"

MagicOff ==
    /\ black_pixel = NoPixel
    /\ white_pixel = NoPixel
    /\ new = NoArray
    /\ quant = NoQuant
    /\ truth = NoTruth

CastOff ==
    /\ cast_in = Zero
    /\ cast_out = <<0, 0>>

Grid == {Norm(k, GridDen) : k \in 0 .. GridDen}
GridPixels == {<<r, g, b>> : r \in Grid, g \in Grid, b \in Grid}

\* Samples anywhere on the grid of [0, 1].
InitMagic ==
    /\ PipeOff
    /\ CastOff
    /\ blend \in Blend
    /\ phase = "input"
    /\ black_pixel \in GridPixels
    /\ white_pixel \in GridPixels
    /\ new = NoArray
    /\ quant = NoQuant
    /\ truth = NoTruth

SynthGrid == {Norm(k, SynthDen) : k \in 0 .. SynthDen}

\* The sample of a scene of alpha a and colour c on a background of value bg
\* (0 for black, 1 for white): a * c + (1 - a) * bg.
Composite(a, c, bg) ==
    Norm(a[1] * c[1] + (a[2] - a[1]) * bg * c[2], a[2] * c[2])

\* A scene of true alpha a > 0 and true colour C rendered on black and on white.
InitSynth ==
    /\ PipeOff
    /\ CastOff
    /\ blend \in Blend
    /\ phase = "input"
    /\ \E a \in SynthGrid \ {Zero} : \E r \in SynthGrid, g \in SynthGrid, b \in SynthGrid :
          /\ truth = [alpha |-> a, color |-> <<r, g, b>>]
          /\ black_pixel = <<Composite(a, r, 0), Composite(a, g, 0), Composite(a, b, 0)>>
          /\ white_pixel = <<Composite(a, r, 1), Composite(a, g, 1), Composite(a, b, 1)>>
    /\ new = NoArray
    /\ quant = NoQuant

\* A value on either side of [0, 1] handed to the casts.
InitCast ==
    /\ PipeOff
    /\ MagicOff
    /\ blend = "Black"
    /\ phase = "cast_input"
    /\ cast_in \in {Norm(k, CastDen) : k \in -CastMax .. CastMax}
    /\ cast_out = <<0, 0>>

\* let new = magic(bp, wp, &args.blend);
Recover ==
    /\ phase = "input"
    /\ new' = magic(black_pixel, white_pixel, blend)
    /\ phase' = "recovered"
    /\ UNCHANGED <<pipeVars, castVars, blend, black_pixel, white_pixel, quant, truth>>

\* (new[i] * SCALAR8) as u8 and (new[i] * SCALAR16) as u16 for each channel i.
Quantize ==
    /\ phase = "recovered"
    /\ quant' = [i \in 1 .. 4 |-> Casts(new[i])]
    /\ phase' = "quantized"
    /\ UNCHANGED <<pipeVars, castVars, blend, black_pixel, white_pixel, new, truth>>

DoCast ==
    /\ phase = "cast_input"
    /\ cast_out' = Casts(cast_in)
    /\ phase' = "cast_done"
    /\ UNCHANGED <<pipeVars, magicVars, blend, cast_in>>

NextMagic == Recover \/ Quantize
NextCast == DoCast

SpecMagic == InitMagic /\ [][NextMagic]_vars
SpecSynth == InitSynth /\ [][NextMagic]_vars
SpecCast == InitCast /\ [][NextCast]_vars

----------------------------------------------------------------------------
(* Images, as the image crate hands them to main.                          *)

\* image::ColorType, the values DynamicImage::color() returns.
ColorType == {"L8", "La8", "Rgb8", "Rgba8", "L16", "La16", "Rgb16", "Rgba16",
              "Rgb32F", "Rgba32F"}

\* ColorType::has_color
has_color(c) == c \in {"Rgb8", "Rgba8", "Rgb16", "Rgba16", "Rgb32F", "Rgba32F"}

\* ColorType::channel_count
channel_count(c) ==
    CASE c \in {"L8", "L16"} -> 1
      [] c \in {"La8", "La16"} -> 2
      [] c \in {"Rgb8", "Rgb16", "Rgb32F"} -> 3
      [] c \in {"Rgba8", "Rgba16", "Rgba32F"} -> 4

\* color_type.bits_per_pixel() / color_type.channel_count()
bits_per_channel(c) ==
    CASE c \in {"L8", "La8", "Rgb8", "Rgba8"} -> 8
      [] c \in {"L16", "La16", "Rgb16", "Rgba16"} -> 16
      [] c \in {"Rgb32F", "Rgba32F"} -> 32

\* The largest channel value of an encoding (1.0 for the float encodings).
MaxValue(c) ==
    CASE bits_per_channel(c) = 8 -> SCALAR8
      [] bits_per_channel(c) = 16 -> SCALAR16
      [] bits_per_channel(c) = 32 -> 1

\* Channel values an input image is drawn from, as 8-bit levels; a 16-bit
\* image holds the same levels widened (v * 257), a float image 0.0 and 1.0.
Levels == <<0, 51, 128, 255>>

LevelOf(c, i) ==
    LET v == Levels[(i % Len(Levels)) + 1]
    IN  CASE bits_per_channel(c) = 8 -> v
          [] bits_per_channel(c) = 16 -> v * 257
          [] bits_per_channel(c) = 32 -> v \div 255

\* The image of size w x h and encoding c holding pattern s: pixels in row-major
\* order, each a sequence of channel_count(c) channel values.
MkImage(w, h, c, s) ==
    [width |-> w, height |-> h, color |-> c,
     data |-> [k \in 1 .. w * h |->
                  [j \in 1 .. channel_count(c) |-> LevelOf(c, s + 2 * k + j)]]]

Images ==
    {MkImage(w, h, c, s) : w \in 1 .. MaxWidth, h \in 1 .. MaxHeight,
                           c \in ColorType, s \in 0 .. MaxSeed}

\* GenericImageView::dimensions
dimensions(img) == <<img.width, img.height>>

\* ImageBuffer::get_pixel(x, y)
get_pixel(img, x, y) == img.data[y * img.width + x + 1]

\* DynamicImage::into_rgb32f followed by get_pixel(x, y).0: the colour channels
\* as fractions of the largest channel value, a grey level in all three, an
\* input alpha channel dropped.
rgb32f_pixel(img, x, y) ==
    LET p == get_pixel(img, x, y)
        m == MaxValue(img.color)
    IN  IF has_color(img.color)
        THEN <<Norm(p[1], m), Norm(p[2], m), Norm(p[3], m)>>
        ELSE <<Norm(p[1], m), Norm(p[1], m), Norm(p[1], m)>>

----------------------------------------------------------------------------
(* Validation.                                                             *)

ErrSize == "Both input images must be the same size"
ErrPrecision == "32-bit color is not supported"
ErrFormat == "Both input images must use the same color format"
ErrOpen == "Can't open file"
ErrDecode == "Can't decode image"
ErrSave == "save failed"

unsupported_color_types == {"Rgb32F", "Rgba32F"}

\* preflight_checks with the colour-format comparison ahead of the 32-bit test.
preflight_checks_format_first(black, white) ==
    IF dimensions(black) # dimensions(white) THEN ErrSize
    ELSE IF black.color # white.color THEN ErrFormat
    ELSE IF black.color \in unsupported_color_types
            \/ white.color \in unsupported_color_types THEN ErrPrecision
    ELSE "Ok"

\* preflight_checks without the colour-format comparison.
preflight_checks_no_format(black, white) ==
    IF dimensions(black) # dimensions(white) THEN ErrSize
    ELSE IF black.color \in unsupported_color_types
            \/ white.color \in unsupported_color_types THEN ErrPrecision
    ELSE "Ok"

\* preflight_checks without the 32-bit test.
preflight_checks_no_precision(black, white) ==
    IF dimensions(black) # dimensions(white) THEN ErrSize
    ELSE IF black.color # white.color THEN ErrFormat
    ELSE "Ok"

\* fn preflight_checks(black, white) -> Result<(), Error>: "Ok" or the message.
preflight_checks(black, white) ==
    IF dimensions(black) # dimensions(white) THEN ErrSize
    ELSE IF black.color \in unsupported_color_types
            \/ white.color \in unsupported_color_types THEN ErrPrecision
    ELSE IF black.color # white.color THEN ErrFormat
    ELSE "Ok"

----------------------------------------------------------------------------
(* main.                                                                   *)

\* The arm of `match color_type` an encoding selects: the pixel type of the
\* buffer it fills and the width of its casts; the `_ => {}` arm is "none".
match_arm_16_as_8(c) ==
    CASE c \in {"L8", "La8", "L16", "La16"} -> [layout |-> "LumaA", bits |-> 8]
      [] c \in {"Rgb8", "Rgba8", "Rgb16", "Rgba16"} -> [layout |-> "Rgba", bits |-> 8]
      [] OTHER -> [layout |-> "none", bits |-> 0]

match_arm(c) ==
    CASE c \in {"L8", "La8"} -> [layout |-> "LumaA", bits |-> 8]
      [] c \in {"L16", "La16"} -> [layout |-> "LumaA", bits |-> 16]
      [] c \in {"Rgb8", "Rgba8"} -> [layout |-> "Rgba", bits |-> 8]
      [] c \in {"Rgb16", "Rgba16"} -> [layout |-> "Rgba", bits |-> 16]
      [] OTHER -> [layout |-> "none", bits |-> 0]

\* ImageBuffer::new(image_dim.0, image_dim.1): every channel zero.
new_buffer(dim, arm) ==
    [width |-> dim[1], height |-> dim[2], layout |-> arm.layout, bits |-> arm.bits,
     data |-> [k \in 1 .. dim[1] * dim[2] |->
                  IF arm.layout = "LumaA" THEN <<0, 0>> ELSE <<0, 0, 0, 0>>]]

\* *pixel = image::LumaA([..]) / image::Rgba([..]) of the arm.
out_pixel(arm, px) ==
    LET scalar == IF arm.bits = 8 THEN SCALAR8 ELSE SCALAR16
    IN  IF arm.layout = "LumaA"
        THEN <<cast_scaled(px[1], scalar), cast_scaled(px[4], scalar)>>
        ELSE <<cast_scaled(px[1], scalar), cast_scaled(px[2], scalar),
               cast_scaled(px[3], scalar), cast_scaled(px[4], scalar)>>

\* The pixel the loop body writes at (x, y).
loop_body(x, y) ==
    LET bp == rgb32f_pixel(black_image, x, y)
        wp == rgb32f_pixel(white_image, x, y)
    IN  out_pixel(match_arm(black_image.color), magic(bp, wp, blend))

NumPixels(img) == img.width * img.height

\* enumerate_pixels_mut has no pixel left to yield.
loop_done_after_first == idx >= 1

loop_done == idx = NumPixels(out_image)

HarnessOff ==
    /\ phase = "main"
    /\ MagicOff
    /\ CastOff

\* Args::parse(): the blend mode is chosen; nothing is loaded; args.out may or
\* may not exist already.
Init ==
    /\ pc = "open_black"
    /\ blend \in Blend
    /\ black_image = NoImage
    /\ white_image = NoImage
    /\ out_image = NoImage
    /\ idx = 0
    /\ out_file \in {FileAbsent, FileOld}
    /\ saves = 0
    /\ error = "none"
    /\ HarnessOff

\* A panic (expect / unwrap on an Err): the run ends with a non-zero status.
Panic(msg) ==
    /\ pc' = "panicked"
    /\ error' = msg

\* ImageReader::open(args.black).expect("Can't open file")
OpenBlack ==
    /\ pc = "open_black"
    /\ \/ pc' = "open_white" /\ error' = error
       \/ Panic(ErrOpen)
    /\ UNCHANGED <<blend, black_image, white_image, out_image, idx, out_file, saves,
                   phase, magicVars, castVars>>

\* ImageReader::open(args.white).expect("Can't open file")
OpenWhite ==
    /\ pc = "open_white"
    /\ \/ pc' = "decode_black" /\ error' = error
       \/ Panic(ErrOpen)
    /\ UNCHANGED <<blend, black_image, white_image, out_image, idx, out_file, saves,
                   phase, magicVars, castVars>>

\* black_reader.decode().expect("Can't decode image")
DecodeBlack ==
    /\ pc = "decode_black"
    /\ \/ \E img \in Images :
             /\ black_image' = img
             /\ pc' = "decode_white"
             /\ error' = error
       \/ Panic(ErrDecode) /\ black_image' = black_image
    /\ UNCHANGED <<blend, white_image, out_image, idx, out_file, saves,
                   phase, magicVars, castVars>>

\* white_reader.decode().expect("Can't decode image")
DecodeWhite ==
    /\ pc = "decode_white"
    /\ \/ \E img \in Images :
             /\ white_image' = img
             /\ pc' = "preflight"
             /\ error' = error
       \/ Panic(ErrDecode) /\ white_image' = white_image
    /\ UNCHANGED <<blend, black_image, out_image, idx, out_file, saves,
                   phase, magicVars, castVars>>

\* preflight_checks(&black_image, &white_image).unwrap()
Preflight ==
    /\ pc = "preflight"
    /\ LET r == preflight_checks(black_image, white_image)
       IN  IF r = "Ok"
           THEN pc' = "match" /\ error' = error
           ELSE Panic(r)
    /\ UNCHANGED <<blend, black_image, white_image, out_image, idx, out_file, saves,
                   phase, magicVars, castVars>>

\* match color_type { .. }: the arm's ImageBuffer::new, or the empty arm.
Match ==
    /\ pc = "match"
    /\ LET arm == match_arm(black_image.color)
       IN  IF arm.layout = "none"
           THEN pc' = "report" /\ out_image' = out_image
           ELSE pc' = "loop" /\ out_image' = new_buffer(dimensions(black_image), arm)
    /\ UNCHANGED <<blend, black_image, white_image, idx, out_file, saves, error,
                   phase, magicVars, castVars>>

\* One iteration of for (x, y, pixel) in .enumerate_pixels_mut(), row-major.
LoopStep ==
    /\ pc = "loop"
    /\ idx < NumPixels(out_image)
    /\ LET x == idx % out_image.width
           y == idx \div out_image.width
       IN  out_image' = [out_image EXCEPT !.data[idx + 1] = loop_body(x, y)]
    /\ idx' = idx + 1
    /\ UNCHANGED <<pc, blend, black_image, white_image, out_file, saves, error,
                   phase, magicVars, castVars>>

\* .save(args.out.as_path()).unwrap() after the loop: the file holds the
\* buffer, or save fails, leaving the file as it was or cut short.
Save ==
    /\ pc = "loop"
    /\ loop_done
    /\ \/ /\ out_file' = FileWritten(out_image)
          /\ saves' = saves + 1
          /\ pc' = "report"
          /\ error' = error
       \/ /\ out_file' \in {out_file, FileTruncated}
          /\ saves' = saves
          /\ Panic(ErrSave)
    /\ UNCHANGED <<blend, black_image, white_image, out_image, idx,
                   phase, magicVars, castVars>>

\* println!("{} saved in {:.02}s!", ..); Ok(())
Report ==
    /\ pc = "report"
    /\ pc' = "done"
    /\ UNCHANGED <<blend, black_image, white_image, out_image, idx, out_file, saves,
                   error, phase, magicVars, castVars>>

Next ==
    \/ OpenBlack
    \/ OpenWhite
    \/ DecodeBlack
    \/ DecodeWhite
    \/ Preflight
    \/ Match
    \/ LoopStep
    \/ Save
    \/ Report

Spec == Init /\ [][Next]_vars

----------------------------------------------------------------------------
(* Properties of the recovery transform.                                   *)

\* black_pixel.R - white_pixel.R + 1.0
RawAlpha == RAdd(RSub(black_pixel[1], white_pixel[1]), One)

\* |q / scalar - c| <= 1 / scalar for an integer q and a rational c.
Within(q, scalar, c) == Abs(q * c[2] - c[1] * scalar) <= c[2]

\* Both quantizations of channel i are within one step of the value c.
ChannelWithin(i, c) ==
    /\ Within(quant[i][1], SCALAR8, c)
    /\ Within(quant[i][2], SCALAR16, c)

AlphaRoundTrip == ChannelWithin(4, truth.alpha)
ColorRoundTrip == \A i \in 1 .. 3 : ChannelWithin(i, truth.color[i])

\* C1 as stated: on a synthetic scene of true alpha a > 0 and true colour C,
\* recovery with FromBlack and with FromWhite returns a and C within one
\* quantization step (1/255 for 8-bit output, 1/65535 for 16-bit output).
C1_RoundTripBothModes ==
    (phase = "quantized" /\ blend \in {"Black", "White"})
        => (AlphaRoundTrip /\ ColorRoundTrip)

\* C1 amended: FromBlack returns a and C within one quantization step;
\* FromWhite returns a within one step and the colour C + (1 - a) / a, the
\* white sample divided by a, which is C within one step when a = 1.
C1_RoundTripFromBlack ==
    /\ (phase = "quantized" /\ blend = "Black") => (AlphaRoundTrip /\ ColorRoundTrip)
    /\ (phase = "quantized" /\ blend = "White") =>
          /\ AlphaRoundTrip
          /\ \A i \in 1 .. 3 :
                new[i] = RAdd(truth.color[i],
                              RDiv(RSub(One, truth.alpha), truth.alpha))
          /\ truth.alpha = One => ColorRoundTrip

C1_Witness ==
    /\ phase = "quantized"
    /\ blend = "Black"
    /\ truth.alpha = <<1, 2>>
    /\ truth.color = <<<<1, 4>>, <<1, 2>>, <<3, 4>>>>
    /\ quant[2] = <<127, 32767>>
    /\ quant[4] = <<127, 32767>>

Selected(i, alpha) ==
    CASE blend = "White" -> RDiv(white_pixel[i], alpha)
      [] blend = "Black" -> RDiv(black_pixel[i], alpha)
      [] blend = "Mix" -> RDiv(RDiv(RAdd(black_pixel[i], white_pixel[i]), Two), alpha)

C6_ZeroAlphaZeroColor ==
    (phase # "input" /\ RLeZero(RawAlpha))
        => /\ new[1] = Zero
           /\ new[2] = Zero
           /\ new[3] = Zero
           /\ new[4] = RawAlpha

C6_Witness ==
    /\ phase = "recovered"
    /\ blend = "Mix"
    /\ RawAlpha = Zero
    /\ black_pixel[2] # Zero
    /\ white_pixel[3] # Zero
    /\ new = <<Zero, Zero, Zero, Zero>>

\* C7: a value above 1.0 is cast to the largest integer of the output depth
\* (255, 65535) and a value below 0.0 to 0; no cast result leaves the range
\* of the type, so nothing wraps.
C7_CastSaturates ==
    phase = "cast_done" =>
        /\ RGtOne(cast_in) => cast_out = <<SCALAR8, SCALAR16>>
        /\ RLtZero(cast_in) => cast_out = <<0, 0>>
        /\ cast_out[1] \in 0 .. SCALAR8
        /\ cast_out[2] \in 0 .. SCALAR16

C7_Witness ==
    /\ phase = "cast_done"
    /\ cast_in = <<13, 10>>
    /\ cast_out = <<SCALAR8, SCALAR16>>

----------------------------------------------------------------------------
(* Properties of main.                                                     *)

PreflightErrors == {ErrSize, ErrPrecision, ErrFormat}

\* preflight_checks has returned in this run.
PastPreflight ==
    \/ pc \in {"match", "loop", "report", "done"}
    \/ pc = "panicked" /\ error \in PreflightErrors \cup {ErrSave}

\* What it returned: "Ok" or the message it failed with.
Verdict == IF pc = "panicked" /\ error \in PreflightErrors THEN error ELSE "Ok"

SameSize ==
    /\ black_image.width = white_image.width
    /\ black_image.height = white_image.height

IsFloat(c) == c \in {"Rgb32F", "Rgba32F"}

AnyFloat == IsFloat(black_image.color) \/ IsFloat(white_image.color)

\* C3 as stated: a pair in which at least one raster is 32-bit float fails
\* with the 32-bit-colour error whatever the dimensions are.
C3_FloatAlwaysPrecisionError ==
    (PastPreflight /\ AnyFloat) => Verdict = ErrPrecision

\* C3 amended: a pair of equal dimensions in which at least one raster is
\* 32-bit float fails with the 32-bit-colour error, whatever the other
\* raster's encoding is; when the dimensions differ the pair fails with the
\* size error instead, the size test coming first.
C3_FloatRejected ==
    (PastPreflight /\ AnyFloat)
        => Verdict = (IF SameSize THEN ErrPrecision ELSE ErrSize)

C3_Witness ==
    /\ pc = "panicked"
    /\ error = ErrPrecision
    /\ SameSize
    /\ black_image.color = "Rgb8"
    /\ white_image.color = "Rgba32F"

\* C4: validation succeeds exactly when the rasters have the same width and
\* height, the same encoding, and no 32-bit-float encoding; different
\* dimensions give the size error, and equal dimensions with different
\* non-float encodings give the colour-format error.
C4_AcceptanceIff ==
    PastPreflight =>
        /\ Verdict = "Ok" <=>
              (SameSize /\ black_image.color = white_image.color /\ ~AnyFloat)
        /\ ~SameSize => Verdict = ErrSize
        /\ (SameSize /\ ~AnyFloat /\ black_image.color # white_image.color)
              => Verdict = ErrFormat

C4_Witness ==
    /\ pc = "panicked"
    /\ error = ErrFormat
    /\ SameSize
    /\ black_image.color = "L8"
    /\ white_image.color = "Rgb8"

\* The run ended in one of the aborts before the transform.
EarlyAbort == pc = "panicked" /\ error \in {ErrOpen, ErrDecode} \cup PreflightErrors

\* Pixel k of the buffer holds what the loop body computes for it.
Computed(k) ==
    out_image.data[k] = loop_body((k - 1) % out_image.width, (k - 1) \div out_image.width)

\* C8: the output file is written only once every pixel of the output raster
\* has been computed; a run that aborts because a file cannot be opened or
\* decoded, or because validation fails, leaves the output file as it was;
\* no pixel is transformed before validation has succeeded.
C8_NoPartialOutput ==
    /\ out_file \notin {FileAbsent, FileOld} =>
          /\ out_image # NoImage
          /\ idx = NumPixels(out_image)
          /\ \A k \in 1 .. NumPixels(out_image) : Computed(k)
    /\ EarlyAbort =>
          /\ out_file \in {FileAbsent, FileOld}
          /\ saves = 0
          /\ out_image = NoImage
          /\ idx = 0
    /\ (idx > 0 \/ out_image # NoImage) =>
          /\ PastPreflight
          /\ preflight_checks(black_image, white_image) = "Ok"

C8_Witness ==
    /\ pc = "report"
    /\ saves = 1
    /\ idx = 4
    /\ out_file = FileWritten(out_image)
    /\ black_image.data # white_image.data

IsGray(c) == c \in {"L8", "La8", "L16", "La16"}

\* C9: for an accepted pair of encoding E the output raster has the inputs'
\* width and height, E's bits per channel (8 or 16), and per pixel either
\* luminance (the cast of the recovered red channel) and alpha when E is
\* grayscale, or R, G, B and alpha when E is RGB or RGBA.
C9_OutputShape ==
    out_image # NoImage =>
        LET E == black_image.color
            scalar == IF bits_per_channel(E) = 8 THEN SCALAR8 ELSE SCALAR16
        IN  /\ white_image.color = E
            /\ dimensions(out_image) = dimensions(black_image)
            /\ dimensions(out_image) = dimensions(white_image)
            /\ out_image.bits = bits_per_channel(E)
            /\ out_image.bits \in {8, 16}
            /\ out_image.layout = (IF IsGray(E) THEN "LumaA" ELSE "Rgba")
            /\ Len(out_image.data) = NumPixels(black_image)
            /\ \A k \in 1 .. Len(out_image.data) :
                  Len(out_image.data[k]) = (IF IsGray(E) THEN 2 ELSE 4)
            /\ \A k \in 1 .. idx :
                  LET x == (k - 1) % black_image.width
                      y == (k - 1) \div black_image.width
                      px == magic(rgb32f_pixel(black_image, x, y),
                                  rgb32f_pixel(white_image, x, y), blend)
                      p == out_image.data[k]
                  IN  /\ p[1] = cast_scaled(px[1], scalar)
                      /\ p[Len(p)] = cast_scaled(px[4], scalar)
                      /\ ~IsGray(E) => /\ p[2] = cast_scaled(px[2], scalar)
                                       /\ p[3] = cast_scaled(px[3], scalar)
            /\ pc \in {"report", "done"} => out_file = FileWritten(out_image)

C9_Witness ==
    /\ pc = "done"
    /\ black_image.color = "La16"
    /\ NumPixels(black_image) = 4
    /\ out_file.state = "written"
    /\ out_file.image.layout = "LumaA"
    /\ out_file.image.bits = 16
    /\ \E k \in 1 .. 4 : out_file.image.data[k][1] \notin {0, SCALAR16}

\* C10: a run that reaches the final message and exits with status zero has
\* saved the output file exactly once, with every pixel computed; no encoding
\* that passes preflight_checks selects the empty default arm of the match.
C10_SuccessImpliesSaved ==
    /\ pc \in {"report", "done"} =>
          /\ saves = 1
          /\ out_image # NoImage
          /\ out_file = FileWritten(out_image)
          /\ idx = NumPixels(black_image)
          /\ \A k \in 1 .. NumPixels(black_image) : Computed(k)
    /\ pc \in {"match", "loop", "report", "done"} =>
          match_arm(black_image.color).layout # "none"

C10_Witness ==
    /\ pc = "done"
    /\ saves = 1
    /\ out_file = FileWritten(out_image)
    /\ black_image.color = "Rgba16"

====
